---- MODULE Spec2Model ----
(***************************************************************************)
(* Agent Orchestrator and Workflow Engine of the marketing SaaS:           *)
(*   api/services/AgentOrchestrator.ts  (task store, dispatch queue,       *)
(*                                       worker-side processAgentTask)     *)
(*   api/services/WorkflowEngine.ts     (workflow runs, steps, pause /     *)
(*                                       resume / cancel)                  *)
(*   unnamed/part_007                   (RedisQueue: queues, workers, job  *)
(*                                       events to the EventStream)        *)
(*                                                                         *)
(* Every `await` of the TypeScript code is a point where other callers and *)
(* workers interleave; an action of this module is the code between two    *)
(* such points (or a whole call when nothing observable lies between).     *)
(* The task store (supabase) applies each update atomically and reports a  *)
(* failure in its result instead of throwing; updates are taken to succeed *)
(* and an insert fails only where an action has an `inserted` input.       *)
(* eventQueue.add (the event sink) may reject.                             *)
(***************************************************************************)
EXTENDS Naturals, Integers, Sequences, FiniteSets, TLC

\* ------------------------------------------------------------------ bounds
MaxTasks == 1
MaxApprovals == 2
MaxResumes == 1
MaxUpdates == 3
MaxRequests == 1
MaxJobs == 1
MaxCreated == 2
MaxPriority == 2
\* the attempts a queue made by RedisQueue.createQueue gives each job
Attempts == 3
\* two Workers are attached to the 'agent-tasks' queue, each with BullMQ's
\* default concurrency of 1
NumWorkers == 2

Null == "null"
Ts == "ts"

Workers == 1..NumWorkers
Users == {"u1"}

\* the (agent_type, task_type) pairs callers submit: a handled pair, an unknown
\* task type of a known agent, an unknown agent type
TaskSpecs == {<<"content", "generate">>, <<"content", "bogus">>, <<"bogus", "generate">>}

Terminal == {"completed", "failed", "cancelled"}

SinkError == "event queue add failed"

VARIABLES
  tasks,            \* agent_tasks table: task id -> row
  agentQueue,       \* waiting jobs of the agent queue: task id -> number of jobs
  workers,          \* worker -> the processAgentTask invocation it runs
  approvals,        \* number of approveTask calls made (bounded)
  steps,            \* the run's workflow definition (context.steps)
  activeExecutions, \* WorkflowEngine.activeExecutions (run ids)
  runStatus,        \* workflow_runs.status of the run
  runError,         \* workflow_runs.error of the run
  context,          \* the run's WorkflowExecutionContext
  acts,             \* activations of processWorkflowSteps: 0 = executeWorkflow, 1.. = resumeWorkflow
  stepRuns,         \* workflow_step_runs rows: <<step id, status>> -> number of rows
  returned,         \* the outcome of the last API call whose outcome is observed
  workflowQueue,    \* waiting 'execute-workflow' jobs of the workflow queue (run ids)
  updates,          \* caller -> its updateTaskStatus call in flight (SpecEv)
  storeWrites,      \* the (task id, status) pairs written to agent_tasks, in order (SpecEv)
  statusEvents,     \* the 'task-status-changed' jobs of the event queue, in order (SpecEv)
  retryQueue,       \* jobs of the agent queue that failed an attempt and wait for the next
  jobOptions,       \* task id -> the (priority, delay) of the jobs createTask added for it
  approvalEvents,   \* the 'approval-required' jobs of the event queue, in order
  queues,           \* RedisQueue.queues: the names of the queues created
  rqWorkers,        \* RedisQueue.workers: the queue names a Worker was created for
  rqJobs,           \* the jobs added through RedisQueue.addJob: job id -> job
  eventStream       \* the events EventStream.trackEvent added to the stream, in order

orchVars == <<tasks, agentQueue, workers, approvals>>
wfVars == <<steps, activeExecutions, runStatus, runError, context, acts, stepRuns>>
apiVars == <<returned, workflowQueue>>
evVars == <<updates, storeWrites, statusEvents>>
optVars == <<retryQueue, jobOptions, approvalEvents>>
rqVars == <<queues, rqWorkers, rqJobs, eventStream>>
vars == <<tasks, agentQueue, workers, approvals, steps, activeExecutions, runStatus,
          runError, context, acts, stepRuns, returned, workflowQueue, updates,
          storeWrites, statusEvents, retryQueue, jobOptions, approvalEvents,
          queues, rqWorkers, rqJobs, eventStream>>

\* ------------------------------------------------------- task store rows

\* JavaScript truthiness of a stored value: null/undefined are falsy, the
\* (non-empty) strings and objects used here are truthy
Truthy(v) == v # Null

\* the payload of a task is opaque to the orchestrator; a workflow step's task
\* carries its step id and the results of the step's dependencies
NoPayload == [step_id |-> Null, previous_step_results |-> <<>>]

\* the row createTask inserts
NewTask(agent_type, task_type, payload, approval_required, priority) ==
  [agent_type |-> agent_type, task_type |-> task_type, payload |-> payload,
   priority |-> priority, status |-> "pending",
   approval_required |-> approval_required, approved_by |-> Null, approved_at |-> Null,
   started_at |-> Null, completed_at |-> Null, result |-> Null, error |-> Null]

Exists(t) == t \in DOMAIN tasks

\* the `update(updateData).eq('id', taskId)` of updateTaskStatus: no row is
\* touched when the id is absent
UpdateData(row, status, result, error) ==
  IF status = "running" THEN [row EXCEPT !.status = status, !.started_at = Ts]
  ELSE IF status \in {"completed", "failed"}
  THEN [row EXCEPT !.status = status, !.completed_at = Ts,
                   !.result = IF Truthy(result) THEN result ELSE @,
                   !.error = IF Truthy(error) THEN error ELSE @]
  ELSE [row EXCEPT !.status = status]

StoreUpdate(store, t, status, result, error) ==
  IF t \in DOMAIN store
  THEN [store EXCEPT ![t] = UpdateData(store[t], status, result, error)]
  ELSE store

\* ----------------------------------------------------------- handlers

\* processContentTask and the placeholder generateContent: the handler's
\* outcome is a function of (agent_type, task_type)
ProcessContentTask(task_type) ==
  IF task_type = "generate"
  THEN [threw |-> FALSE, value |-> "generated content"]
  ELSE [threw |-> TRUE, value |-> "Unknown content task type: bogus"]

\* the switch of processAgentTask
Handler(agent_type, task_type) ==
  IF agent_type = "content" THEN ProcessContentTask(task_type)
  ELSE [threw |-> TRUE, value |-> "Unknown agent type: bogus"]

\* ------------------------------------------------------- dispatch queue

\* agentQueue.add(`agent-<type>`, {taskId, ...}, opts): one more waiting job
\* carrying the task id; priority and delay only postpone when a worker may
\* take it, so any waiting job may be the next one taken
QueueAdd(queue, t) ==
  IF t \in DOMAIN queue THEN [queue EXCEPT ![t] = @ + 1] ELSE queue @@ (t :> 1)

NextTaskId == Cardinality(DOMAIN tasks) + 1

\* ------------------------------------------------ AgentOrchestrator (API)

\* the priorities callers give: 0 is "no priority", 1 the most urgent
Priorities == 0..MaxPriority

\* a variant that delays the most urgent jobs longest
DelayInverted(priority) == (MaxPriority - priority) * 1000

\* the delay option createTask computes from the priority
Delay(priority) == IF priority = 0 THEN 0 ELSE priority * 1000

\* createTask's agentQueue.add(name, {taskId, ...}, {priority, delay}): the
\* options of the job are logged under the task id
JobAdd(log, t, priority) ==
  LET job == [priority |-> priority, delay |-> Delay(priority)]
  IN IF t \in DOMAIN log THEN [log EXCEPT ![t] = Append(@, job)] ELSE log @@ (t :> <<job>>)

\* createTask: insert the row with status 'pending', then enqueue its job
\* whatever approval_required is
CreateTask(agent_type, task_type, approval_required, priority) ==
  /\ tasks' = tasks @@ (NextTaskId :> NewTask(agent_type, task_type, NoPayload,
                                               approval_required, priority))
  /\ agentQueue' = QueueAdd(agentQueue, NextTaskId)
  /\ jobOptions' = JobAdd(jobOptions, NextTaskId, priority)
  /\ UNCHANGED <<workers, approvals>>
  /\ UNCHANGED wfVars
  /\ UNCHANGED <<apiVars, evVars>>
  /\ UNCHANGED <<retryQueue, approvalEvents, rqVars>>

\* createTask while fewer than `bound` tasks exist
CreateTaskUpTo(bound, agent_type, task_type, approval_required, priority) ==
  /\ Cardinality(DOMAIN tasks) < bound
  /\ CreateTask(agent_type, task_type, approval_required, priority)

\* updateTaskStatus called from outside a worker: the state machine lets an
\* external caller cancel a task
UpdateTaskStatus(t, status) ==
  /\ Exists(t)
  /\ tasks' = StoreUpdate(tasks, t, status, Null, Null)
  /\ UNCHANGED <<agentQueue, workers, approvals>>
  /\ UNCHANGED wfVars
  /\ UNCHANGED <<apiVars, evVars>>
  /\ UNCHANGED <<optVars, rqVars>>

\* a variant that throws when the row is not found
GetTaskStatusThrowing(t) ==
  /\ returned' = IF Exists(t)
                 THEN [op |-> "getTaskStatus", arg |-> t, threw |-> FALSE, error |-> Null,
                       data |-> <<tasks[t]>>]
                 ELSE [op |-> "getTaskStatus", arg |-> t, threw |-> TRUE,
                       error |-> "Task not found", data |-> <<>>]
  /\ UNCHANGED <<workflowQueue, evVars>>
  /\ UNCHANGED orchVars
  /\ UNCHANGED wfVars
  /\ UNCHANGED <<optVars, rqVars>>

\* getTaskStatus: select the row by id; the row, or null when the select
\* reports an error or no data
GetTaskStatus(t) ==
  /\ returned' = [op |-> "getTaskStatus", arg |-> t, threw |-> FALSE, error |-> Null,
                  data |-> IF Exists(t) THEN <<tasks[t]>> ELSE <<>>]
  /\ UNCHANGED <<workflowQueue, evVars>>
  /\ UNCHANGED orchVars
  /\ UNCHANGED wfVars
  /\ UNCHANGED <<optVars, rqVars>>

\* requireApproval: updateTaskStatus(taskId, 'pending') (store write, then the
\* event add, which ends the call when it rejects), then the update of
\* approval_required and status, then the 'approval-required' event, whose
\* add may reject as well
RequireApproval(t, userId, sinkOk, approvalSinkOk) ==
  /\ Exists(t)
  /\ Len(approvalEvents) < MaxRequests
  /\ LET written == StoreUpdate(tasks, t, "pending", Null, Null)
     IN tasks' = IF sinkOk
                 THEN [written EXCEPT ![t].approval_required = TRUE, ![t].status = "pending"]
                 ELSE written
  /\ approvalEvents' = IF sinkOk /\ approvalSinkOk
                       THEN Append(approvalEvents, [taskId |-> t, userId |-> userId])
                       ELSE approvalEvents
  /\ returned' = [op |-> "requireApproval", arg |-> t,
                  threw |-> ~(sinkOk /\ approvalSinkOk),
                  error |-> IF sinkOk /\ approvalSinkOk THEN Null ELSE SinkError,
                  data |-> <<>>]
  /\ UNCHANGED <<agentQueue, workers, approvals>>
  /\ UNCHANGED wfVars
  /\ UNCHANGED <<workflowQueue, evVars>>
  /\ UNCHANGED <<retryQueue, jobOptions, rqVars>>

\* the task ids callers name: those createTask hands out, whether or not the
\* row exists yet
TaskIds == 1..MaxTasks

\* approveTask: the update (no check of the row's present state; no row is
\* touched when the id is absent), the select, and a new job for the task when
\* the row exists; the call returns normally either way
ApproveTask(t, approvedBy) ==
  /\ approvals < MaxApprovals
  /\ tasks' = IF Exists(t)
              THEN [tasks EXCEPT ![t].approved_by = approvedBy, ![t].approved_at = Ts,
                                 ![t].status = "pending"]
              ELSE tasks
  /\ agentQueue' = IF Exists(t) THEN QueueAdd(agentQueue, t) ELSE agentQueue
  /\ approvals' = approvals + 1
  /\ UNCHANGED workers
  /\ UNCHANGED wfVars
  /\ UNCHANGED <<apiVars, evVars>>
  /\ UNCHANGED <<optVars, rqVars>>

\* --------------------------------------------- worker: processAgentTask

IdleWorker ==
  [pc |-> "idle", taskId |-> 0, agent_type |-> Null, task_type |-> Null,
   err |-> Null, result |-> Null,
   attemptsMade |-> 0, \* the attempts of the job that ended before this one
   thrown |-> Null,    \* the message of the exception the handler threw (history)
   written |-> <<>>]   \* the (status, error) pairs this invocation wrote (history)

\* a free Worker takes a waiting job and calls processAgentTask(job); the
\* Workers are interchangeable, so the lowest-numbered free one takes it
TakeJob(w, t) ==
  /\ workers[w].pc = "idle"
  /\ \A v \in Workers : v < w => workers[v].pc # "idle"
  /\ t \in DOMAIN agentQueue
  /\ agentQueue[t] > 0
  /\ agentQueue' = [agentQueue EXCEPT ![t] = @ - 1]
  /\ workers' = [workers EXCEPT ![w] =
       [IdleWorker EXCEPT !.pc = "start", !.taskId = t,
                          !.agent_type = tasks[t].agent_type,
                          !.task_type = tasks[t].task_type]]
  /\ UNCHANGED <<tasks, approvals>>
  /\ UNCHANGED wfVars
  /\ UNCHANGED <<apiVars, evVars>>
  /\ UNCHANGED <<optVars, rqVars>>

\* try { await this.updateTaskStatus(taskId, 'running') ...
MarkRunning(w, sinkOk) ==
  /\ workers[w].pc = "start"
  /\ tasks' = StoreUpdate(tasks, workers[w].taskId, "running", Null, Null)
  /\ workers' = [workers EXCEPT ![w] =
       IF sinkOk THEN [@ EXCEPT !.pc = "handler", !.written = Append(@, <<"running", Null>>)]
       ELSE [@ EXCEPT !.pc = "catch", !.err = SinkError,
                      !.written = Append(@, <<"running", Null>>)]]
  /\ UNCHANGED <<agentQueue, approvals>>
  /\ UNCHANGED wfVars
  /\ UNCHANGED <<apiVars, evVars>>
  /\ UNCHANGED <<optVars, rqVars>>

\* ... switch (agent_type) { ... result = await this.process<Agent>Task(...) }
RunHandler(w) ==
  /\ workers[w].pc = "handler"
  /\ LET out == Handler(workers[w].agent_type, workers[w].task_type)
     IN workers' = [workers EXCEPT ![w] =
          IF out.threw
          THEN [@ EXCEPT !.pc = "catch", !.err = out.value, !.thrown = out.value]
          ELSE [@ EXCEPT !.pc = "complete", !.result = out.value]]
  /\ UNCHANGED <<tasks, agentQueue, approvals>>
  /\ UNCHANGED wfVars
  /\ UNCHANGED <<apiVars, evVars>>
  /\ UNCHANGED <<optVars, rqVars>>

\* ... await this.updateTaskStatus(taskId, 'completed', result);
\*     await this.eventQueue.add('agent-task-completed', ...)
MarkCompleted(w, sinkOk) ==
  /\ workers[w].pc = "complete"
  /\ tasks' = StoreUpdate(tasks, workers[w].taskId, "completed", workers[w].result, Null)
  /\ workers' = [workers EXCEPT ![w] =
       IF sinkOk THEN [@ EXCEPT !.pc = "resolved", !.written = Append(@, <<"completed", Null>>)]
       ELSE [@ EXCEPT !.pc = "catch", !.err = SinkError,
                      !.written = Append(@, <<"completed", Null>>)]]
  /\ UNCHANGED <<agentQueue, approvals>>
  /\ UNCHANGED wfVars
  /\ UNCHANGED <<apiVars, evVars>>
  /\ UNCHANGED <<optVars, rqVars>>

\* a variant whose store write is lost when the event add rejects
MarkFailedSinkFirst(w, sinkOk) ==
  /\ workers[w].pc = "catch"
  /\ tasks' = IF sinkOk
              THEN StoreUpdate(tasks, workers[w].taskId, "failed", Null, workers[w].err)
              ELSE tasks
  /\ workers' = [workers EXCEPT ![w].pc = IF sinkOk THEN "resolved" ELSE "rejected"]
  /\ UNCHANGED <<agentQueue, approvals>>
  /\ UNCHANGED wfVars
  /\ UNCHANGED <<apiVars, evVars>>
  /\ UNCHANGED <<optVars, rqVars>>

\* } catch (error) { await this.updateTaskStatus(taskId, 'failed', null, error.message);
\*                   await this.eventQueue.add('agent-task-failed', ...) }
MarkFailed(w, sinkOk) ==
  /\ workers[w].pc = "catch"
  /\ tasks' = StoreUpdate(tasks, workers[w].taskId, "failed", Null, workers[w].err)
  /\ workers' = [workers EXCEPT ![w].pc = IF sinkOk THEN "resolved" ELSE "rejected",
                                 ![w].written = Append(@, <<"failed", workers[w].err>>)]
  /\ UNCHANGED <<agentQueue, approvals>>
  /\ UNCHANGED wfVars
  /\ UNCHANGED <<apiVars, evVars>>
  /\ UNCHANGED <<optVars, rqVars>>

\* the Worker settles the job (completed or failed) and is free again
Release(w) ==
  /\ workers[w].pc \in {"resolved", "rejected"}
  /\ workers' = [workers EXCEPT ![w] = IdleWorker]
  /\ UNCHANGED <<tasks, agentQueue, approvals>>
  /\ UNCHANGED wfVars
  /\ UNCHANGED <<apiVars, evVars>>
  /\ UNCHANGED <<optVars, rqVars>>

\* the Worker settles a job of a queue made by RedisQueue.createQueue
\* (attempts: 3, exponential backoff): when processAgentTask rejected and the
\* job has attempts left it waits for its next attempt, otherwise it is done
ReleaseOrRetry(w) ==
  /\ workers[w].pc \in {"resolved", "rejected"}
  /\ retryQueue' =
       IF workers[w].pc = "rejected" /\ workers[w].attemptsMade + 1 < Attempts
       THEN retryQueue \cup {[taskId |-> workers[w].taskId,
                              attemptsMade |-> workers[w].attemptsMade + 1]}
       ELSE retryQueue
  /\ workers' = [workers EXCEPT ![w] = IdleWorker]
  /\ UNCHANGED <<tasks, agentQueue, approvals>>
  /\ UNCHANGED wfVars
  /\ UNCHANGED <<apiVars, evVars>>
  /\ UNCHANGED <<jobOptions, approvalEvents, rqVars>>

\* the backoff of a failed job has passed: a free Worker calls
\* processAgentTask(job) again with the same job data
TakeRetry(w, job) ==
  /\ workers[w].pc = "idle"
  /\ \A v \in Workers : v < w => workers[v].pc # "idle"
  /\ job \in retryQueue
  /\ retryQueue' = retryQueue \ {job}
  /\ workers' = [workers EXCEPT ![w] =
       [IdleWorker EXCEPT !.pc = "start", !.taskId = job.taskId,
                          !.agent_type = tasks[job.taskId].agent_type,
                          !.task_type = tasks[job.taskId].task_type,
                          !.attemptsMade = job.attemptsMade]]
  /\ UNCHANGED <<tasks, agentQueue, approvals>>
  /\ UNCHANGED wfVars
  /\ UNCHANGED <<apiVars, evVars>>
  /\ UNCHANGED <<jobOptions, approvalEvents, rqVars>>

\* processAgentTask(job) from the job being taken to the call settling, as one
\* step: the rows an observer that does not tell 'pending' from 'running'
\* (waitForTaskCompletion) can see are the row before and the row after
ProcessedRow(row, sinkRunningOk, sinkCompletedOk) ==
  LET running == UpdateData(row, "running", Null, Null)
      out == Handler(row.agent_type, row.task_type)
      completed == UpdateData(running, "completed", out.value, Null)
  IN IF ~sinkRunningOk THEN UpdateData(running, "failed", Null, SinkError)
     ELSE IF out.threw THEN UpdateData(running, "failed", Null, out.value)
     ELSE IF ~sinkCompletedOk THEN UpdateData(completed, "failed", Null, SinkError)
     ELSE completed

ProcessAgentTask(t, sinkRunningOk, sinkCompletedOk) ==
  /\ t \in DOMAIN agentQueue
  /\ agentQueue[t] > 0
  /\ agentQueue' = [agentQueue EXCEPT ![t] = @ - 1]
  /\ tasks' = [tasks EXCEPT ![t] = ProcessedRow(@, sinkRunningOk, sinkCompletedOk)]
  /\ UNCHANGED <<workers, approvals>>
  /\ UNCHANGED wfVars
  /\ UNCHANGED <<apiVars, evVars>>
  /\ UNCHANGED <<optVars, rqVars>>

WorkerStep ==
  \E w \in Workers :
    \/ \E t \in DOMAIN tasks : TakeJob(w, t)
    \/ \E sinkOk \in BOOLEAN : MarkRunning(w, sinkOk)
    \/ RunHandler(w)
    \/ \E sinkOk \in BOOLEAN : MarkCompleted(w, sinkOk)
    \/ \E sinkOk \in BOOLEAN : MarkFailed(w, sinkOk)
    \/ Release(w)

\* --------------------------------------------------- workflow definitions

Run == "run1"

Step(id, dependencies, continue_on_failure, task_type) ==
  [id |-> id, agent_type |-> "content", task_type |-> task_type,
   dependencies |-> dependencies, continue_on_failure |-> continue_on_failure,
   approval_required |-> FALSE,
   priority |-> 0]     \* no step of these definitions sets a priority

\* executeStep's `step.priority || 1`
StepPriority(step) == IF step.priority = 0 THEN 1 ELSE step.priority

\* the workflow definitions runs are started with: a step whose failure
\* aborts the run, a tolerated handler failure followed by an independent
\* step, a tolerated failure followed by a dependent step, a repeated step
\* id, a step whose task needs approval, and a step that depends on an id no
\* step declares
WorkflowTable ==
  << <<Step("A", {}, FALSE, "generate"), Step("B", {}, FALSE, "generate")>>,
    <<Step("A", {}, TRUE, "bogus"), Step("B", {}, FALSE, "generate")>>,
    <<Step("A", {}, TRUE, "generate"), Step("B", {"A"}, FALSE, "generate")>>,
    <<Step("A", {}, TRUE, "generate"), Step("A", {}, TRUE, "generate")>>,
    <<[Step("A", {}, FALSE, "generate") EXCEPT !.approval_required = TRUE],
      Step("B", {}, FALSE, "generate")>>,
    <<Step("A", {}, FALSE, "generate"), Step("B", {"A"}, FALSE, "generate"),
      Step("C", {"Z"}, FALSE, "generate")>> >>

\* the workflows table: workflow id -> steps
Workflows == {WorkflowTable[id] : id \in DOMAIN WorkflowTable}

\* the workflow ids callers name: the stored ones, and 0, which is not stored
WorkflowIds == DOMAIN WorkflowTable \cup {0}

Acts == 0..MaxResumes

\* the context executeWorkflow builds (1-based step indices; 0 before the loop)
NoContext ==
  [completedSteps |-> {}, failedSteps |-> {}, stepResults |-> <<>>, currentStepIndex |-> 0]

\* failedAt: the step indices this activation caught a failure of (history)
IdleAct == [pc |-> "idle", i |-> 0, taskId |-> 0, err |-> Null, failedAt |-> {}]

\* ------------------------------------------------------- WorkflowEngine

\* a variant that takes a dependency as met once it is resolved either way
CheckStepDependenciesResolved(step, ctx) ==
  \A dependency \in step.dependencies :
    dependency \in ctx.completedSteps \/ dependency \in ctx.failedSteps

\* a variant that only waits for dependencies some step declares as its id
CheckStepDependenciesDeclared(step, ctx) ==
  \A dependency \in step.dependencies :
    (\E k \in 1..Len(steps) : steps[k].id = dependency) => dependency \in ctx.completedSteps

\* checkStepDependencies: every declared dependency is in completedSteps
CheckStepDependencies(step, ctx) ==
  \A dependency \in step.dependencies : dependency \in ctx.completedSteps

\* a variant that hands a step every stored result, declared or not
GetPreviousStepResultsAll(step, ctx) == ctx.stepResults

\* getPreviousStepResults: the stored results of the declared dependencies
GetPreviousStepResults(step, ctx) ==
  [dep \in step.dependencies \cap DOMAIN ctx.stepResults |-> ctx.stepResults[dep]]

MapSet(m, k, v) == [x \in DOMAIN m \cup {k} |-> IF x = k THEN v ELSE m[x]]

BagAdd(bag, row) ==
  IF row \in DOMAIN bag THEN [bag EXCEPT ![row] = @ + 1] ELSE bag @@ (row :> 1)

\* a variant that records the run before it looks the workflow up
TriggerWorkflowRecordFirst(workflowId, inserted) ==
  /\ runStatus = Null
  /\ Run \notin workflowQueue
  /\ runStatus' = "running"
  /\ IF workflowId \in DOMAIN WorkflowTable
     THEN /\ steps' = WorkflowTable[workflowId]
          /\ workflowQueue' = workflowQueue \cup {Run}
          /\ returned' = [op |-> "executeWorkflow", arg |-> workflowId, threw |-> FALSE,
                          error |-> Null, data |-> <<>>]
     ELSE /\ returned' = [op |-> "executeWorkflow", arg |-> workflowId, threw |-> TRUE,
                          error |-> "Workflow not found", data |-> <<>>]
          /\ UNCHANGED <<steps, workflowQueue>>
  /\ UNCHANGED <<activeExecutions, runError, context, acts, stepRuns>>
  /\ UNCHANGED orchVars
  /\ UNCHANGED evVars
  /\ UNCHANGED <<optVars, rqVars>>

\* AgentOrchestrator.executeWorkflow: look the workflow up and throw when it is
\* not stored; otherwise insert the workflow_runs row with status 'running'
\* (the result of the insert is not read) and add the 'execute-workflow' job
\* carrying the steps (the model follows one run)
TriggerWorkflow(workflowId, inserted) ==
  /\ runStatus = Null
  /\ Run \notin workflowQueue
  /\ IF workflowId \in DOMAIN WorkflowTable
     THEN /\ runStatus' = IF inserted THEN "running" ELSE runStatus
          /\ steps' = WorkflowTable[workflowId]
          /\ workflowQueue' = workflowQueue \cup {Run}
          /\ returned' = [op |-> "executeWorkflow", arg |-> workflowId, threw |-> FALSE,
                          error |-> Null, data |-> <<>>]
     ELSE /\ returned' = [op |-> "executeWorkflow", arg |-> workflowId, threw |-> TRUE,
                          error |-> "Workflow not found", data |-> <<>>]
          /\ UNCHANGED <<steps, runStatus, workflowQueue>>
  /\ UNCHANGED <<activeExecutions, runError, context, acts, stepRuns>>
  /\ UNCHANGED orchVars
  /\ UNCHANGED evVars
  /\ UNCHANGED <<optVars, rqVars>>

\* executeWorkflow up to its first await: the fresh context is registered in
\* activeExecutions and processWorkflowSteps starts at index 0
ExecuteWorkflow ==
  /\ Run \in workflowQueue
  /\ workflowQueue' = workflowQueue \ {Run}
  /\ acts[0].pc = "idle"
  /\ context' = NoContext
  /\ activeExecutions' = activeExecutions \cup {Run}
  /\ acts' = [acts EXCEPT ![0] = [IdleAct EXCEPT !.pc = "loop", !.i = 1]]
  /\ UNCHANGED <<steps, runStatus, runError, stepRuns>>
  /\ UNCHANGED orchVars
  /\ UNCHANGED <<returned, evVars>>
  /\ UNCHANGED <<optVars, rqVars>>

\* processWorkflowSteps: the for loop has run past the last step
LoopEnd(a) ==
  /\ acts[a].pc = "loop"
  /\ acts[a].i > Len(steps)
  /\ acts' = [acts EXCEPT ![a].pc = "returned"]
  /\ UNCHANGED <<steps, activeExecutions, runStatus, runError, context, stepRuns>>
  /\ UNCHANGED orchVars
  /\ UNCHANGED <<apiVars, evVars>>
  /\ UNCHANGED <<optVars, rqVars>>

\* processWorkflowSteps: dependencies not met, `continue`
SkipStep(a) ==
  /\ acts[a].pc = "loop"
  /\ acts[a].i <= Len(steps)
  /\ ~CheckStepDependencies(steps[acts[a].i], context)
  /\ context' = [context EXCEPT !.currentStepIndex = acts[a].i]
  /\ acts' = [acts EXCEPT ![a].i = @ + 1]
  /\ UNCHANGED <<steps, activeExecutions, runStatus, runError, stepRuns>>
  /\ UNCHANGED orchVars
  /\ UNCHANGED <<apiVars, evVars>>
  /\ UNCHANGED <<optVars, rqVars>>

\* task ids are unique opaque strings; the task of the step at `index`
\* executed by activation a is named by that pair
StepTaskId(a, index) == a * Len(steps) + index

\* the step index a step task was created for
TaskIndex(t) == ((t - 1) % Len(steps)) + 1

\* processWorkflowSteps -> executeStep -> createTask: dependencies met, the
\* step's task is inserted and its job enqueued; the activation then polls
ExecuteStep(a) ==
  /\ acts[a].pc = "loop"
  /\ acts[a].i <= Len(steps)
  /\ LET step == steps[acts[a].i]
         id == StepTaskId(a, acts[a].i)
         payload == [step_id |-> step.id,
                     previous_step_results |-> GetPreviousStepResults(step, context)]
     IN /\ CheckStepDependencies(step, context)
        /\ tasks' = tasks @@ (id :> NewTask(step.agent_type, step.task_type, payload,
                                             step.approval_required, StepPriority(step)))
        /\ agentQueue' = QueueAdd(agentQueue, id)
        /\ jobOptions' = JobAdd(jobOptions, id, StepPriority(step))
        /\ acts' = [acts EXCEPT ![a].pc = "wait", ![a].taskId = id]
  /\ context' = [context EXCEPT !.currentStepIndex = acts[a].i]
  /\ UNCHANGED <<steps, activeExecutions, runStatus, runError, stepRuns>>
  /\ UNCHANGED <<workers, approvals>>
  /\ UNCHANGED <<apiVars, evVars>>
  /\ UNCHANGED <<retryQueue, approvalEvents, rqVars>>

\* waitForTaskCompletion sees 'completed': executeStep stores the result and
\* the step id joins completedSteps
StepCompleted(a) ==
  /\ acts[a].pc = "wait"
  /\ tasks[acts[a].taskId].status = "completed"
  /\ LET id == steps[acts[a].i].id
     IN context' = [context EXCEPT
          !.stepResults = MapSet(@, id, tasks[acts[a].taskId].result),
          !.completedSteps = @ \cup {id}]
  /\ acts' = [acts EXCEPT ![a].pc = "record_success"]
  /\ UNCHANGED <<steps, activeExecutions, runStatus, runError, stepRuns>>
  /\ UNCHANGED orchVars
  /\ UNCHANGED <<apiVars, evVars>>
  /\ UNCHANGED <<optVars, rqVars>>

\* the error waitForTaskCompletion throws for the row it reads, Null when it
\* sleeps and polls again
WaitError(row) ==
  IF row.status = "failed" THEN "Task failed: " \o row.error
  ELSE IF row.status = "cancelled" THEN "Task was cancelled"
  ELSE IF row.status = "pending" /\ row.approval_required /\ ~Truthy(row.approved_by)
  THEN "Task requires approval"
  ELSE Null

\* waitForTaskCompletion throws; the catch of processWorkflowSteps adds the
\* step id to failedSteps
StepFailed(a) ==
  /\ acts[a].pc = "wait"
  /\ tasks[acts[a].taskId].status # "completed"
  /\ WaitError(tasks[acts[a].taskId]) # Null
  /\ context' = [context EXCEPT !.failedSteps = @ \cup {steps[acts[a].i].id}]
  /\ acts' = [acts EXCEPT ![a].pc = "record_failed",
                          ![a].err = WaitError(tasks[acts[a].taskId]),
                          ![a].failedAt = @ \cup {acts[a].i}]
  /\ UNCHANGED <<steps, activeExecutions, runStatus, runError, stepRuns>>
  /\ UNCHANGED orchVars
  /\ UNCHANGED <<apiVars, evVars>>
  /\ UNCHANGED <<optVars, rqVars>>

\* a variant that lets a timed-out step pass as if nothing had happened
StepTimeoutIgnored(a) ==
  /\ acts[a].pc = "wait"
  /\ acts' = [acts EXCEPT ![a].pc = "loop", ![a].i = @ + 1, ![a].taskId = 0]
  /\ UNCHANGED <<steps, activeExecutions, runStatus, runError, context, stepRuns>>
  /\ UNCHANGED orchVars
  /\ UNCHANGED <<apiVars, evVars>>
  /\ UNCHANGED <<optVars, rqVars>>

\* the polling loop runs out of time, whatever the task's status has become
\* since the last poll
StepTimeout(a) ==
  /\ acts[a].pc = "wait"
  /\ context' = [context EXCEPT !.failedSteps = @ \cup {steps[acts[a].i].id}]
  /\ acts' = [acts EXCEPT ![a].pc = "record_failed", ![a].err = "Task timeout after 300000ms",
                          ![a].failedAt = @ \cup {acts[a].i}]
  /\ UNCHANGED <<steps, activeExecutions, runStatus, runError, stepRuns>>
  /\ UNCHANGED orchVars
  /\ UNCHANGED <<apiVars, evVars>>
  /\ UNCHANGED <<optVars, rqVars>>

\* recordStepCompletion(context, step, 'success'), the optional delay, and
\* the next iteration
RecordSuccess(a) ==
  /\ acts[a].pc = "record_success"
  /\ stepRuns' = BagAdd(stepRuns, <<steps[acts[a].i].id, "success">>)
  /\ acts' = [acts EXCEPT ![a].pc = "loop", ![a].i = @ + 1, ![a].taskId = 0]
  /\ UNCHANGED <<steps, activeExecutions, runStatus, runError, context>>
  /\ UNCHANGED orchVars
  /\ UNCHANGED <<apiVars, evVars>>
  /\ UNCHANGED <<optVars, rqVars>>

\* a variant that throws whatever continue_on_failure says
RecordFailedAlwaysThrows(a) ==
  /\ acts[a].pc = "record_failed"
  /\ stepRuns' = BagAdd(stepRuns, <<steps[acts[a].i].id, "failed">>)
  /\ acts' = [acts EXCEPT ![a].pc = "threw",
                          ![a].err = "Workflow step " \o steps[acts[a].i].id \o " failed: " \o @]
  /\ UNCHANGED <<steps, activeExecutions, runStatus, runError, context>>
  /\ UNCHANGED orchVars
  /\ UNCHANGED <<apiVars, evVars>>
  /\ UNCHANGED <<optVars, rqVars>>

\* recordStepCompletion(context, step, 'failed', error.message), then
\* `continue` or the throw that ends processWorkflowSteps
RecordFailed(a) ==
  /\ acts[a].pc = "record_failed"
  /\ stepRuns' = BagAdd(stepRuns, <<steps[acts[a].i].id, "failed">>)
  /\ acts' = [acts EXCEPT ![a] =
       IF steps[acts[a].i].continue_on_failure
       THEN [@ EXCEPT !.pc = "loop", !.i = @ + 1, !.taskId = 0, !.err = Null]
       ELSE [@ EXCEPT !.pc = "threw",
               !.err = "Workflow step " \o steps[acts[a].i].id \o " failed: " \o @]]
  /\ UNCHANGED <<steps, activeExecutions, runStatus, runError, context>>
  /\ UNCHANGED orchVars
  /\ UNCHANGED <<apiVars, evVars>>
  /\ UNCHANGED <<optVars, rqVars>>

\* executeWorkflow after processWorkflowSteps returned: status 'completed'
MarkRunCompleted ==
  /\ acts[0].pc = "returned"
  /\ runStatus' = "completed"
  /\ acts' = [acts EXCEPT ![0].pc = "delete"]
  /\ UNCHANGED <<steps, activeExecutions, runError, context, stepRuns>>
  /\ UNCHANGED orchVars
  /\ UNCHANGED <<apiVars, evVars>>
  /\ UNCHANGED <<optVars, rqVars>>

\* a variant whose catch rethrows without writing the status
MarkRunFailedNoWrite ==
  /\ acts[0].pc = "threw"
  /\ acts' = [acts EXCEPT ![0].pc = "delete_rethrow"]
  /\ UNCHANGED <<steps, activeExecutions, runStatus, runError, context, stepRuns>>
  /\ UNCHANGED orchVars
  /\ UNCHANGED <<apiVars, evVars>>
  /\ UNCHANGED <<optVars, rqVars>>

\* executeWorkflow's catch: status 'failed' with the error message
MarkRunFailed ==
  /\ acts[0].pc = "threw"
  /\ runStatus' = "failed"
  /\ runError' = acts[0].err
  /\ acts' = [acts EXCEPT ![0].pc = "delete_rethrow"]
  /\ UNCHANGED <<steps, activeExecutions, context, stepRuns>>
  /\ UNCHANGED orchVars
  /\ UNCHANGED <<apiVars, evVars>>
  /\ UNCHANGED <<optVars, rqVars>>

\* a variant that forgets the live context when the run has failed
DeleteExecutionOnSuccess ==
  /\ acts[0].pc \in {"delete", "delete_rethrow"}
  /\ activeExecutions' = IF acts[0].pc = "delete" THEN activeExecutions \ {Run}
                         ELSE activeExecutions
  /\ acts' = [acts EXCEPT ![0].pc = IF @ = "delete" THEN "done" ELSE "rejected"]
  /\ UNCHANGED <<steps, runStatus, runError, context, stepRuns>>
  /\ UNCHANGED orchVars
  /\ UNCHANGED <<apiVars, evVars>>
  /\ UNCHANGED <<optVars, rqVars>>

\* this.activeExecutions.delete(workflowRunId), then return or rethrow
DeleteExecution ==
  /\ acts[0].pc \in {"delete", "delete_rethrow"}
  /\ activeExecutions' = activeExecutions \ {Run}
  /\ acts' = [acts EXCEPT ![0].pc = IF @ = "delete" THEN "done" ELSE "rejected"]
  /\ UNCHANGED <<steps, runStatus, runError, context, stepRuns>>
  /\ UNCHANGED orchVars
  /\ UNCHANGED <<apiVars, evVars>>
  /\ UNCHANGED <<optVars, rqVars>>

\* the outcome of pauseWorkflow, resumeWorkflow and cancelWorkflow for a run
\* id that activeExecutions does not hold
ExecutionNotFound(op) ==
  [op |-> op, arg |-> 0, threw |-> TRUE,
   error |-> "Workflow execution " \o Run \o " not found", data |-> <<>>]

\* a variant that writes the status without looking the run up
PauseWorkflowUnchecked ==
  /\ runStatus' = "paused"
  /\ UNCHANGED <<steps, activeExecutions, runError, context, acts, stepRuns>>
  /\ UNCHANGED orchVars
  /\ UNCHANGED <<apiVars, evVars>>
  /\ UNCHANGED <<optVars, rqVars>>

\* pauseWorkflow: throws when the run is not live; otherwise only the
\* persisted status changes
PauseWorkflow ==
  /\ IF Run \in activeExecutions
     THEN /\ runStatus' = "paused"
          /\ UNCHANGED returned
     ELSE /\ returned' = ExecutionNotFound("pauseWorkflow")
          /\ UNCHANGED runStatus
  /\ UNCHANGED <<steps, activeExecutions, runError, context, acts, stepRuns>>
  /\ UNCHANGED orchVars
  /\ UNCHANGED <<workflowQueue, evVars>>
  /\ UNCHANGED <<optVars, rqVars>>

\* resumeWorkflow: throws when the run is not live; otherwise status
\* 'running', then processWorkflowSteps(context), whose loop starts at index 0
\* on the live context
ResumeWorkflow(a) ==
  /\ a # 0
  /\ acts[a].pc = "idle"
  /\ \A b \in Acts : (0 < b /\ b < a) => acts[b].pc # "idle"
  /\ IF Run \in activeExecutions
     THEN /\ runStatus' = "running"
          /\ acts' = [acts EXCEPT ![a] = [IdleAct EXCEPT !.pc = "loop", !.i = 1]]
          /\ UNCHANGED returned
     ELSE /\ returned' = ExecutionNotFound("resumeWorkflow")
          /\ UNCHANGED <<runStatus, acts>>
  /\ UNCHANGED <<steps, activeExecutions, runError, context, stepRuns>>
  /\ UNCHANGED orchVars
  /\ UNCHANGED <<workflowQueue, evVars>>
  /\ UNCHANGED <<optVars, rqVars>>

\* a variant that also aborts the tasks already dispatched for the run
CancelWorkflowAborting ==
  /\ Run \in activeExecutions
  /\ runStatus' = "cancelled"
  /\ activeExecutions' = activeExecutions \ {Run}
  /\ tasks' = [t \in DOMAIN tasks |->
                 IF tasks[t].status \in Terminal THEN tasks[t]
                 ELSE [tasks[t] EXCEPT !.status = "cancelled"]]
  /\ UNCHANGED <<steps, runError, context, acts, stepRuns>>
  /\ UNCHANGED <<agentQueue, workers, approvals>>
  /\ UNCHANGED <<apiVars, evVars>>
  /\ UNCHANGED <<optVars, rqVars>>

\* cancelWorkflow: throws when the run is not live; otherwise status
\* 'cancelled', and the run leaves activeExecutions
CancelWorkflow ==
  /\ IF Run \in activeExecutions
     THEN /\ runStatus' = "cancelled"
          /\ activeExecutions' = activeExecutions \ {Run}
          /\ UNCHANGED returned
     ELSE /\ returned' = ExecutionNotFound("cancelWorkflow")
          /\ UNCHANGED <<runStatus, activeExecutions>>
  /\ UNCHANGED <<steps, runError, context, acts, stepRuns>>
  /\ UNCHANGED orchVars
  /\ UNCHANGED <<workflowQueue, evVars>>
  /\ UNCHANGED <<optVars, rqVars>>

\* getWorkflowStatus: null when the run is not live, otherwise a summary of
\* its context (progress is Math.round of the completed share in percent)
GetWorkflowStatus(workflowRunId) ==
  IF workflowRunId \notin activeExecutions THEN <<>>
  ELSE <<[workflowRunId |-> workflowRunId,
          currentStepIndex |-> context.currentStepIndex,
          totalSteps |-> Len(steps),
          completedSteps |-> context.completedSteps,
          failedSteps |-> context.failedSteps,
          progress |-> (200 * Cardinality(context.completedSteps) + Len(steps))
                         \div (2 * Len(steps))]>>

\* ------------------------------------------------------- specification

InitOrch ==
  /\ tasks = <<>>
  /\ agentQueue = <<>>
  /\ workers = [w \in Workers |-> IdleWorker]
  /\ approvals = 0

\* the outcome of an API call: the data it resolved with (<<>> for null or
\* void) or the error it threw
NoReturn == [op |-> Null, arg |-> 0, threw |-> FALSE, error |-> Null, data |-> <<>>]

InitApi ==
  /\ returned = NoReturn
  /\ workflowQueue = {}

InitEv ==
  /\ updates = <<>>
  /\ storeWrites = <<>>
  /\ statusEvents = <<>>

\* no job waits for a retry, createTask has added none, no approval was asked
InitOpt ==
  /\ retryQueue = {}
  /\ jobOptions = <<>>
  /\ approvalEvents = <<>>

\* new RedisQueue(redis, eventStream): no queue, no worker, an empty stream
InitRQ ==
  /\ queues = {}
  /\ rqWorkers = {}
  /\ rqJobs = <<>>
  /\ eventStream = <<>>

Init ==
  /\ InitOrch
  /\ InitApi
  /\ InitOpt
  /\ InitRQ
  /\ InitEv
  /\ steps = <<>>
  /\ activeExecutions = {}
  /\ runStatus = Null
  /\ runError = Null
  /\ context = NoContext
  /\ acts = <<>>
  /\ stepRuns = <<>>

Next ==
  \/ \E ts \in TaskSpecs, ar \in BOOLEAN, priority \in Priorities :
       CreateTaskUpTo(MaxTasks, ts[1], ts[2], ar, priority)
  \/ \E t \in DOMAIN tasks : UpdateTaskStatus(t, "cancelled")
  \/ \E t \in DOMAIN tasks, u \in Users, sinkOk \in BOOLEAN, approvalSinkOk \in BOOLEAN :
       RequireApproval(t, u, sinkOk, approvalSinkOk)
  \/ \E t \in TaskIds, u \in Users : ApproveTask(t, u)
  \/ WorkerStep

Spec == Init /\ [][Next]_vars

\* an invocation of processAgentTask moves on: the handler terminates and
\* every awaited store write and event add settles
WorkerAdvance(w) ==
  \/ \E sinkOk \in BOOLEAN : MarkRunning(w, sinkOk)
  \/ RunHandler(w)
  \/ \E sinkOk \in BOOLEAN : MarkCompleted(w, sinkOk)
  \/ \E sinkOk \in BOOLEAN : MarkFailed(w, sinkOk)

\* the orchestrator on an agent queue that retries: a task is created and
\* its job is attempted until an attempt resolves or the attempts run out
NextRetry ==
  \/ \E ts \in TaskSpecs, ar \in BOOLEAN, priority \in Priorities :
       CreateTaskUpTo(MaxTasks, ts[1], ts[2], ar, priority)
  \/ \E w \in Workers :
       \/ \E t \in DOMAIN tasks : TakeJob(w, t)
       \/ \E sinkOk \in BOOLEAN : MarkRunning(w, sinkOk)
       \/ RunHandler(w)
       \/ \E sinkOk \in BOOLEAN : MarkCompleted(w, sinkOk)
       \/ \E sinkOk \in BOOLEAN : MarkFailed(w, sinkOk)
       \/ ReleaseOrRetry(w)
       \/ \E job \in retryQueue : TakeRetry(w, job)

SpecRetry == Init /\ [][NextRetry]_vars

\* the orchestrator with workers that are scheduled fairly
SpecFair == Init /\ [][Next]_vars /\ \A w \in Workers : WF_vars(WorkerAdvance(w))

\* ------------------------------------ updateTaskStatus, await by await

\* the callers that may be inside updateTaskStatus at once: the workers
Callers == Workers

\* the statuses callers pass to updateTaskStatus
UpdateStatuses == {"running", "completed", "failed", "cancelled"}

IdleUpdate == [pc |-> "idle", taskId |-> 0, status |-> Null, write |-> 0]

\* updateTaskStatus up to the end of its first await: updateData is built and
\* the row is updated
BeginUpdateTaskStatus(c, t, status) ==
  /\ updates[c].pc = "idle"
  /\ Len(storeWrites) < MaxUpdates
  /\ Exists(t)
  /\ tasks' = StoreUpdate(tasks, t, status,
                          IF status = "completed" THEN "generated content" ELSE Null,
                          IF status = "failed" THEN "handler failed" ELSE Null)
  /\ storeWrites' = Append(storeWrites, <<t, status>>)
  /\ updates' = [updates EXCEPT ![c] = [pc |-> "emit", taskId |-> t, status |-> status,
                                        write |-> Len(storeWrites) + 1]]
  /\ UNCHANGED <<agentQueue, workers, approvals, statusEvents>>
  /\ UNCHANGED wfVars
  /\ UNCHANGED apiVars
  /\ UNCHANGED <<optVars, rqVars>>

\* updateTaskStatus from there: eventQueue.add('task-status-changed', ...)
\* resolves, or rejects and updateTaskStatus rejects with it
EmitStatusChanged(c, sinkOk) ==
  /\ updates[c].pc = "emit"
  /\ statusEvents' = IF sinkOk
                     THEN Append(statusEvents, [taskId |-> updates[c].taskId,
                                                status |-> updates[c].status,
                                                write |-> updates[c].write])
                     ELSE statusEvents
  /\ returned' = [op |-> "updateTaskStatus", arg |-> updates[c].taskId, threw |-> ~sinkOk,
                  error |-> IF sinkOk THEN Null ELSE SinkError, data |-> <<>>]
  /\ updates' = [updates EXCEPT ![c] = IdleUpdate]
  /\ UNCHANGED <<storeWrites, workflowQueue>>
  /\ UNCHANGED orchVars
  /\ UNCHANGED wfVars
  /\ UNCHANGED <<optVars, rqVars>>

\* the required fields a caller may leave out of the spec it passes
RequiredFields == {"agent_type", "task_type"}

\* a variant that enqueues the job before the insert is known to have succeeded
CreateIncompleteTaskEnqueueFirst(missing, inserted) ==
  /\ Cardinality(DOMAIN tasks) < MaxTasks
  /\ LET row == NewTask(IF missing = "agent_type" THEN Null ELSE "content",
                        IF missing = "task_type" THEN Null ELSE "generate",
                        NoPayload, FALSE, 1)
     IN IF inserted
        THEN /\ tasks' = tasks @@ (NextTaskId :> row)
             /\ agentQueue' = QueueAdd(agentQueue, NextTaskId)
             /\ jobOptions' = JobAdd(jobOptions, NextTaskId, 1)
             /\ returned' = [op |-> "createTask", arg |-> NextTaskId, threw |-> FALSE,
                             error |-> Null, data |-> <<row>>]
        ELSE /\ returned' = [op |-> "createTask", arg |-> NextTaskId, threw |-> TRUE,
                             error |-> "insert failed", data |-> <<>>]
             /\ agentQueue' = QueueAdd(agentQueue, NextTaskId)
             /\ jobOptions' = JobAdd(jobOptions, NextTaskId, 1)
             /\ UNCHANGED tasks
  /\ UNCHANGED <<workers, approvals, workflowQueue>>
  /\ UNCHANGED wfVars
  /\ UNCHANGED evVars
  /\ UNCHANGED <<retryQueue, approvalEvents, rqVars>>

\* createTask with a spec that lacks a required field: the code checks
\* nothing itself, builds the row with the field undefined and inserts it;
\* when the store takes the row the job is enqueued and the task returned,
\* when the store reports an error createTask throws it
CreateIncompleteTask(missing, inserted) ==
  /\ Cardinality(DOMAIN tasks) < MaxTasks
  /\ LET row == NewTask(IF missing = "agent_type" THEN Null ELSE "content",
                        IF missing = "task_type" THEN Null ELSE "generate",
                        NoPayload, FALSE, 1)
     IN IF inserted
        THEN /\ tasks' = tasks @@ (NextTaskId :> row)
             /\ agentQueue' = QueueAdd(agentQueue, NextTaskId)
             /\ jobOptions' = JobAdd(jobOptions, NextTaskId, 1)
             /\ returned' = [op |-> "createTask", arg |-> NextTaskId, threw |-> FALSE,
                             error |-> Null, data |-> <<row>>]
        ELSE /\ returned' = [op |-> "createTask", arg |-> NextTaskId, threw |-> TRUE,
                             error |-> "insert failed", data |-> <<>>]
             /\ UNCHANGED <<tasks, agentQueue, jobOptions>>
  /\ UNCHANGED <<workers, approvals, workflowQueue>>
  /\ UNCHANGED wfVars
  /\ UNCHANGED evVars
  /\ UNCHANGED <<retryQueue, approvalEvents, rqVars>>

\* the orchestrator with a fresh store and no updateTaskStatus call in flight
InitSpecEv ==
  /\ InitOrch
  /\ InitApi
  /\ InitOpt
  /\ InitRQ
  /\ updates = [c \in Callers |-> IdleUpdate]
  /\ storeWrites = <<>>
  /\ statusEvents = <<>>
  /\ steps = <<>>
  /\ activeExecutions = {}
  /\ runStatus = Null
  /\ runError = Null
  /\ context = NoContext
  /\ acts = <<>>
  /\ stepRuns = <<>>

NextEv ==
  \/ \E ts \in TaskSpecs, ar \in BOOLEAN, priority \in Priorities :
       CreateTaskUpTo(MaxTasks, ts[1], ts[2], ar, priority)
  \/ \E c \in Callers, t \in TaskIds, status \in UpdateStatuses :
       BeginUpdateTaskStatus(c, t, status)
  \/ \E c \in Callers, sinkOk \in BOOLEAN : EmitStatusChanged(c, sinkOk)
  \/ \E t \in TaskIds : GetTaskStatus(t)
  \/ \E missing \in RequiredFields, inserted \in BOOLEAN :
       CreateIncompleteTask(missing, inserted)

\* createTask, getTaskStatus and concurrent updateTaskStatus calls
SpecEv == InitSpecEv /\ [][NextEv]_vars

\* the engine before any workflow is triggered: no run, no live context
InitWF ==
  /\ InitOrch
  /\ InitApi
  /\ InitOpt
  /\ InitRQ
  /\ InitEv
  /\ steps = <<>>
  /\ activeExecutions = {}
  /\ runStatus = Null
  /\ runError = Null
  /\ context = NoContext
  /\ acts = [a \in Acts |-> IdleAct]
  /\ stepRuns = <<>>

\* an external caller cancels the task a step is waiting for (the transition
\* the task state machine allows from outside, out of a non-terminal state)
CancelAwaitedTask(a) ==
  /\ acts[a].pc = "wait"
  /\ tasks[acts[a].taskId].status \notin Terminal
  /\ UpdateTaskStatus(acts[a].taskId, "cancelled")

EngineStep ==
  \/ \E workflowId \in WorkflowIds : TriggerWorkflow(workflowId, TRUE)
  \/ ExecuteWorkflow
  \/ \E a \in Acts :
       \/ LoopEnd(a)
       \/ SkipStep(a)
       \/ ExecuteStep(a)
       \/ StepCompleted(a)
       \/ StepFailed(a)
       \/ StepTimeout(a)
       \/ RecordSuccess(a)
       \/ RecordFailed(a)
       \/ ResumeWorkflow(a)
  \/ MarkRunCompleted
  \/ MarkRunFailed
  \/ DeleteExecution
  \/ PauseWorkflow
  \/ CancelWorkflow

NextWF ==
  \/ EngineStep
  \/ \E t \in DOMAIN tasks : ProcessAgentTask(t, TRUE, TRUE)
  \/ \E a \in Acts : CancelAwaitedTask(a)

SpecWF == InitWF /\ [][NextWF]_vars

\* the WorkflowEngine.executeWorkflow invocation moves on: every awaited
\* store call settles and every step wait ends, by the task becoming
\* terminal or by the timeout
MainAdvance ==
  \/ LoopEnd(0)
  \/ SkipStep(0)
  \/ ExecuteStep(0)
  \/ StepCompleted(0)
  \/ StepFailed(0)
  \/ StepTimeout(0)
  \/ RecordSuccess(0)
  \/ RecordFailed(0)
  \/ MarkRunCompleted
  \/ MarkRunFailed
  \/ DeleteExecution

\* the engine with an executeWorkflow invocation that is never starved
SpecWFFair == InitWF /\ [][NextWF]_vars /\ WF_vars(MainAdvance)

\* the orchestrator's API on its own: tasks are created and a workflow is
\* triggered, with no worker and no engine taking the jobs
NextApi ==
  \/ \E ts \in TaskSpecs, ar \in BOOLEAN, priority \in Priorities :
       CreateTaskUpTo(MaxCreated, ts[1], ts[2], ar, priority)
  \/ \E workflowId \in WorkflowIds, inserted \in BOOLEAN :
       TriggerWorkflow(workflowId, inserted)

SpecApi == Init /\ [][NextApi]_vars

\* ------------------------------------------------------------ RedisQueue

\* the queue names callers use
QueueNames == {"agent-content", "agent-email"}

\* the job ids callers name
JobIds == 1..MaxJobs

QueueNotFound(queueName) == "Queue " \o queueName \o " not found"

StreamError == "xadd failed"

\* createQueue: a Queue with that name is put into the map
CreateQueue(queueName) ==
  /\ queues' = queues \cup {queueName}
  /\ UNCHANGED <<rqWorkers, rqJobs, eventStream>>
  /\ UNCHANGED <<orchVars, wfVars, apiVars, evVars, optVars>>

\* createWorker: a Worker for that queue name is put into the map (the queue
\* map is not consulted)
CreateWorker(queueName) ==
  /\ rqWorkers' = rqWorkers \cup {queueName}
  /\ UNCHANGED <<queues, rqJobs, eventStream>>
  /\ UNCHANGED <<orchVars, wfVars, apiVars, evVars, optVars>>

\* a variant that adds the job without looking the queue up
AddJobUnchecked(queueName) ==
  /\ Len(rqJobs) < MaxJobs
  /\ rqJobs' = Append(rqJobs, [queue |-> queueName, state |-> "waiting",
                               attemptsMade |-> 0, adder |-> "track"])
  /\ UNCHANGED <<queues, rqWorkers, eventStream>>
  /\ UNCHANGED <<orchVars, wfVars, apiVars, evVars, optVars>>

\* addJob up to the end of `await queue.add(...)`: throws when the name is not
\* in the map; otherwise the job is in the queue, waiting, and the caller has
\* yet to track its creation
AddJob(queueName) ==
  /\ IF queueName \notin queues
     THEN /\ returned' = [op |-> "addJob", arg |-> 0, threw |-> TRUE,
                          error |-> QueueNotFound(queueName), data |-> <<>>]
          /\ UNCHANGED rqJobs
     ELSE /\ Len(rqJobs) < MaxJobs
          /\ rqJobs' = Append(rqJobs, [queue |-> queueName, state |-> "waiting",
                                       attemptsMade |-> 0, adder |-> "track"])
          /\ UNCHANGED returned
  /\ UNCHANGED <<queues, rqWorkers, eventStream>>
  /\ UNCHANGED <<orchVars, wfVars, workflowQueue, evVars, optVars>>

\* addJob from `await this.eventStream.trackEvent({event_type: 'job_created'})`
\* on: the event is added to the stream, or trackEvent rethrows the error of
\* the stream and addJob rejects
TrackJobCreated(j, tracked) ==
  /\ j \in DOMAIN rqJobs
  /\ rqJobs[j].adder = "track"
  /\ rqJobs' = [rqJobs EXCEPT ![j].adder = "done"]
  /\ eventStream' = IF tracked
                    THEN Append(eventStream, [event_type |-> "job_created", job_id |-> j])
                    ELSE eventStream
  /\ returned' = [op |-> "addJob", arg |-> j, threw |-> ~tracked,
                  error |-> IF tracked THEN Null ELSE StreamError, data |-> <<>>]
  /\ UNCHANGED <<queues, rqWorkers>>
  /\ UNCHANGED <<orchVars, wfVars, workflowQueue, evVars, optVars>>

\* a Worker created for the job's queue name takes the waiting job
WorkerTakeJob(j) ==
  /\ j \in DOMAIN rqJobs
  /\ rqJobs[j].state = "waiting"
  /\ rqJobs[j].queue \in rqWorkers
  /\ rqJobs' = [rqJobs EXCEPT ![j].state = "active"]
  /\ UNCHANGED <<queues, rqWorkers, eventStream>>
  /\ UNCHANGED <<orchVars, wfVars, apiVars, evVars, optVars>>

\* the processor settles: the Worker's 'completed' or 'failed' listener tracks
\* the event (its own failure is lost, nothing awaits the listener); a failed
\* job with attempts left may wait for another attempt
WorkerFinishJob(j, ok, retry, tracked) ==
  /\ j \in DOMAIN rqJobs
  /\ rqJobs[j].state = "active"
  /\ ok => ~retry
  /\ retry => rqJobs[j].attemptsMade + 1 < Attempts
  /\ rqJobs' = [rqJobs EXCEPT ![j].state = IF ok THEN "completed"
                                           ELSE IF retry THEN "waiting" ELSE "failed",
                              ![j].attemptsMade = @ + 1]
  /\ eventStream' =
       IF tracked
       THEN Append(eventStream, [event_type |-> IF ok THEN "job_completed" ELSE "job_failed",
                                 job_id |-> j])
       ELSE eventStream
  /\ UNCHANGED <<queues, rqWorkers>>
  /\ UNCHANGED <<orchVars, wfVars, apiVars, evVars, optVars>>

\* getJobStatus: throws when the name is not in the map; the job of that
\* queue with that id, or null
GetJobStatus(queueName, j) ==
  /\ returned' =
       IF queueName \notin queues
       THEN [op |-> "getJobStatus", arg |-> j, threw |-> TRUE,
             error |-> QueueNotFound(queueName), data |-> <<>>]
       ELSE [op |-> "getJobStatus", arg |-> j, threw |-> FALSE, error |-> Null,
             data |-> IF /\ j \in DOMAIN rqJobs
                         /\ rqJobs[j].queue = queueName
                         /\ rqJobs[j].state # "removed"
                      THEN <<[id |-> j, attemptsMade |-> rqJobs[j].attemptsMade]>>
                      ELSE <<>>]
  /\ UNCHANGED <<queues, rqWorkers, rqJobs, eventStream>>
  /\ UNCHANGED <<orchVars, wfVars, workflowQueue, evVars, optVars>>

\* removeJob: throws when the name is not in the map; removes the job of that
\* queue with that id when there is one (an active job is locked and its
\* removal rejects)
RemoveJob(queueName, j) ==
  /\ IF queueName \notin queues
     THEN /\ returned' = [op |-> "removeJob", arg |-> j, threw |-> TRUE,
                          error |-> QueueNotFound(queueName), data |-> <<>>]
          /\ UNCHANGED rqJobs
     ELSE IF /\ j \in DOMAIN rqJobs
             /\ rqJobs[j].queue = queueName
             /\ rqJobs[j].state # "removed"
          THEN IF rqJobs[j].state = "active"
               THEN /\ returned' = [op |-> "removeJob", arg |-> j, threw |-> TRUE,
                                    error |-> "job is locked", data |-> <<>>]
                    /\ UNCHANGED rqJobs
               ELSE /\ rqJobs' = [rqJobs EXCEPT ![j].state = "removed"]
                    /\ returned' = [op |-> "removeJob", arg |-> j, threw |-> FALSE,
                                    error |-> Null, data |-> <<>>]
          ELSE /\ returned' = [op |-> "removeJob", arg |-> j, threw |-> FALSE,
                               error |-> Null, data |-> <<>>]
               /\ UNCHANGED rqJobs
  /\ UNCHANGED <<queues, rqWorkers, eventStream>>
  /\ UNCHANGED <<orchVars, wfVars, workflowQueue, evVars, optVars>>

NextRQ ==
  \/ \E queueName \in QueueNames : CreateQueue(queueName)
  \/ \E queueName \in QueueNames : CreateWorker(queueName)
  \/ \E queueName \in QueueNames : AddJob(queueName)
  \/ \E j \in JobIds, tracked \in BOOLEAN : TrackJobCreated(j, tracked)
  \/ \E j \in JobIds : WorkerTakeJob(j)
  \/ \E j \in JobIds, ok \in BOOLEAN, retry \in BOOLEAN, tracked \in BOOLEAN :
       WorkerFinishJob(j, ok, retry, tracked)
  \/ \E queueName \in QueueNames, j \in JobIds : GetJobStatus(queueName, j)
  \/ \E queueName \in QueueNames, j \in JobIds : RemoveJob(queueName, j)

SpecRQ == Init /\ [][NextRQ]_vars

\* ------------------------------------------------------------ claims

\* a processAgentTask invocation is in progress on worker w
InProgress(w) == workers[w].pc \in {"start", "handler", "complete", "catch"}

\* activation a has gone past the step at index j
Past(a, j) ==
  \/ acts[a].i > j
  \/ acts[a].i = j /\ acts[a].pc \in {"wait", "record_success", "record_failed", "threw"}

\* executeWorkflow's loop has aborted on a failed step
MainAborted == acts[0].pc \in {"threw", "delete_rethrow", "rejected"}

\* C1: a task with approval_required true and no approver recorded never has
\* the stored status 'running'
C1_ApprovalGate ==
  \A t \in DOMAIN tasks :
    (tasks[t].approval_required /\ tasks[t].approved_by = Null) => tasks[t].status # "running"

\* C2: once a task's stored status is completed, failed or cancelled, no step
\* changes it
C2_TerminalAbsorbing ==
  [][\A t \in DOMAIN tasks :
       tasks[t].status \in Terminal => tasks'[t].status = tasks[t].status]_vars

\* C3: completedSteps and failedSteps of a run's context are disjoint in
\* every reachable state
C3_Disjoint == context.completedSteps \cap context.failedSteps = {}

\* C4: no task exists for a step one of whose declared dependencies is in
\* failedSteps and not in completedSteps (a task is created for a step only
\* when every dependency is in completedSteps, and completedSteps only grows)
C4_SkipOnUnmetDependency ==
  \A t \in DOMAIN tasks :
    \A D \in steps[TaskIndex(t)].dependencies :
      ~(D \in context.failedSteps /\ D \notin context.completedSteps)

\* C4 witness: an activation has gone past a step whose dependency failed and
\* never completed, and created no task for it
C4_Witness ==
  \E a \in Acts, j \in 1..Len(steps) :
    /\ Past(a, j)
    /\ StepTaskId(a, j) \notin DOMAIN tasks
    /\ \E D \in steps[j].dependencies :
         D \in context.failedSteps /\ D \notin context.completedSteps

\* C5: no two processAgentTask invocations for the same task id are in
\* progress at once
C5_AtMostOneInvocation ==
  \A w1 \in Workers, w2 \in Workers :
    (w1 # w2 /\ InProgress(w1) /\ InProgress(w2)) => workers[w1].taskId # workers[w2].taskId

\* C6: an invocation whose handler threw returns without throwing, its last
\* store write is 'failed' with the thrown message, and it never writes
\* 'completed'
C6_HandlerFailureContained ==
  \A w \in Workers :
    (workers[w].thrown # Null /\ workers[w].pc \in {"resolved", "rejected"}) =>
      /\ workers[w].pc = "resolved"
      /\ workers[w].written[Len(workers[w].written)] = <<"failed", workers[w].thrown>>
      /\ \A k \in 1..Len(workers[w].written) : workers[w].written[k][1] # "completed"

\* C7: completed_at is set exactly when the status is terminal
C7_CompletedAtIffTerminal ==
  \A t \in DOMAIN tasks : (tasks[t].completed_at # Null) <=> (tasks[t].status \in Terminal)

\* C8: once executeWorkflow's loop has aborted on a failed step A, the run is
\* marked 'failed', no task is created for a step declared after A, and no
\* later step joins failedSteps
C8_AbortOnFailure ==
  [][MainAborted =>
       /\ (acts[0].pc = "threw" /\ acts'[0].pc # "threw") => runStatus' = "failed"
       /\ \A t \in DOMAIN tasks' \ DOMAIN tasks : TaskIndex(t) <= acts[0].i
       /\ \A j \in (acts[0].i + 1)..Len(steps) :
            steps[j].id \in context'.failedSteps => steps[j].id \in context.failedSteps]_vars

\* C9: a failure of a step with continue_on_failure never ends an activation;
\* the step id is in failedSteps; every later step without dependencies the
\* activation has gone past has its task; and when executeWorkflow's loop
\* has returned, the status written is 'completed'
C9_ContinueOnFailure ==
  [][\A a \in Acts :
       /\ acts'[a].pc = "threw" => ~steps[acts'[a].i].continue_on_failure
       /\ \A k \in acts'[a].failedAt :
            /\ steps[k].id \in context'.failedSteps
            /\ steps[k].continue_on_failure =>
                 \A j \in (k + 1)..Len(steps) :
                   (steps[j].dependencies = {} /\ Past(a, j)') =>
                     StepTaskId(a, j) \in DOMAIN tasks'
       /\ (a = 0 /\ acts[0].pc = "returned" /\ acts'[0].pc # "returned") =>
            runStatus' = "completed"]_vars

\* C9 witness: step A failed with continue_on_failure, the independent step B
\* got its task and completed, and the finished run is 'completed' with A in
\* failedSteps
C9_Witness ==
  /\ acts[0].pc = "done"
  /\ runStatus = "completed"
  /\ 1 \in acts[0].failedAt
  /\ steps[1].continue_on_failure
  /\ steps[1].id \in context.failedSteps
  /\ steps[1].id \notin steps[2].dependencies
  /\ StepTaskId(0, 2) \in DOMAIN tasks
  /\ steps[2].id \in context.completedSteps

\* C10: once the run's persisted status is completed, failed or cancelled, no
\* step changes it
C10_TerminalRunImmutable ==
  [][(runStatus \in Terminal) => (runStatus' = runStatus)]_vars

\* activation a of processWorkflowSteps is running its loop
Active(a) == acts[a].pc \in {"loop", "wait", "record_success", "record_failed"}

\* C11: while the run's persisted status is 'paused' or 'cancelled' (pause or
\* cancel has returned and no resume has followed), no task is created for
\* the run
C11_CooperativeStop ==
  [][(runStatus \in {"paused", "cancelled"}) => (DOMAIN tasks' = DOMAIN tasks)]_vars

\* C12: every task the run creates is for a step declared after the steps of
\* all tasks created before it, and at most one activation waits for a step's
\* task at any time
C12_StrictSequentialOrder ==
  [][/\ \A t \in DOMAIN tasks' \ DOMAIN tasks :
          \A u \in DOMAIN tasks : TaskIndex(u) < TaskIndex(t)
     /\ Cardinality({a \in Acts : acts'[a].pc = "wait"}) <= 1]_vars

\* C13: at most one processWorkflowSteps activation runs on the run's live
\* context at any time
C13_SingleOwner == Cardinality({a \in Acts : Active(a)}) <= 1

\* C14: an approveTask call (approvals grows) naming a task that does not
\* exist or is already approved leaves the task store and the dispatch queue
\* unchanged
C14_ApproveRejected ==
  [][(approvals' = approvals + 1 /\ \A t \in TaskIds : Exists(t) => tasks[t].approved_by # Null)
       => (tasks' = tasks /\ agentQueue' = agentQueue)]_vars

\* C15: a task with approval_required true and no approver that is 'pending'
\* stays 'pending' (an external cancel aside) in every step
C15_PendingUntilApproved ==
  [][\A t \in DOMAIN tasks :
       (tasks[t].approval_required /\ tasks[t].approved_by = Null
          /\ tasks[t].status = "pending")
         => tasks'[t].status \in {"pending", "cancelled"}]_vars

\* C16: an invocation for a task with approval_required false whose handler
\* returned a result has written exactly 'running' then 'completed' when it
\* settles
C16_NormalLifecycle ==
  \A w \in Workers :
    (/\ workers[w].pc \in {"resolved", "rejected"}
     /\ workers[w].result # Null
     /\ ~tasks[workers[w].taskId].approval_required)
      => workers[w].written = << <<"running", Null>>, <<"completed", Null>> >>

\* C17: an invocation whose handler did not throw never writes 'failed',
\* whatever the event queue does
C17_EventSinkIsolation ==
  \A w \in Workers :
    workers[w].thrown = Null =>
      \A k \in 1..Len(workers[w].written) : workers[w].written[k][1] # "failed"

\* C18: no step is recorded as failed because its task is 'pending' with
\* approval outstanding
C18_ApprovalBlockedNotError ==
  \A a \in Acts :
    acts[a].pc = "record_failed" => acts[a].err # "Task requires approval"

Misdeclared(j) ==
  \E D \in steps[j].dependencies : \A k \in 1..Len(steps) : steps[k].id # D

\* no task was created for the step at index j
NoTaskFor(j) == \A t \in DOMAIN tasks : TaskIndex(t) # j

\* C21: a step with a misdeclared dependency never gets a task and is never
\* waited for, its id (when no other step shares it) is in neither
\* completedSteps nor failedSteps, and when executeWorkflow's loop has
\* returned the status written is 'completed'
C21_MisdeclaredDependency ==
  [][/\ \A j \in 1..Len(steps') :
          Misdeclared(j)' =>
            /\ NoTaskFor(j)'
            /\ \A a \in Acts : ~(acts'[a].pc = "wait" /\ acts'[a].i = j)
            /\ (\A k \in 1..Len(steps') : k # j => steps'[k].id # steps'[j].id)
                 => steps'[j].id \notin context'.completedSteps \cup context'.failedSteps
     /\ (acts[0].pc = "returned" /\ acts'[0].pc # "returned" /\ \E j \in 1..Len(steps) : Misdeclared(j))
          => runStatus' = "completed"]_vars

\* C21 witness: the run [A, B after A, C after the undeclared Z] has finished
\* 'completed' with A and B completed, no task for C, and C in neither set
C21_Witness ==
  /\ Len(steps) = 3
  /\ Misdeclared(3)
  /\ acts[0].pc = "done"
  /\ runStatus = "completed"
  /\ {steps[1].id, steps[2].id} \subseteq context.completedSteps
  /\ NoTaskFor(3)
  /\ steps[3].id \notin context.completedSteps \cup context.failedSteps

\* C22: a getTaskStatus call changes neither the task store nor the dispatch
\* queue nor the event queue, and resolves with the row, or with null when
\* the id is absent, without throwing
C22_GetTaskStatusPureRead ==
  [][(returned' # returned /\ returned'.op = "getTaskStatus")
       => /\ tasks' = tasks
          /\ agentQueue' = agentQueue
          /\ statusEvents' = statusEvents
          /\ ~returned'.threw
          /\ returned'.data = IF returned'.arg \in DOMAIN tasks
                              THEN <<tasks[returned'.arg]>> ELSE <<>>]_vars

\* C22 witness: getTaskStatus was asked for an id that is not stored yet and
\* resolved with null
C22_Witness ==
  /\ returned.op = "getTaskStatus"
  /\ returned.arg \notin DOMAIN tasks
  /\ ~returned.threw
  /\ returned.data = <<>>

\* C25: for each task id, the 'task-status-changed' events are in the event
\* queue in the order in which their status values were written to the store
C25_EventsFollowWrites ==
  \A i \in 1..Len(statusEvents), j \in 1..Len(statusEvents) :
    (i < j /\ statusEvents[i].taskId = statusEvents[j].taskId)
      => statusEvents[i].write < statusEvents[j].write

\* C23: no task record lacks a required field (a createTask call with an
\* incomplete spec persists nothing)
C23_CreateTaskValidation ==
  \A t \in DOMAIN tasks : tasks[t].agent_type # Null /\ tasks[t].task_type # Null

\* C24: AgentOrchestrator.executeWorkflow for a workflow id that is not stored
\* throws, writes no workflow_runs row and adds no job to the workflow queue
C24_UnknownWorkflow ==
  [][(/\ returned' # returned
      /\ returned'.op = "executeWorkflow"
      /\ returned'.arg \notin DOMAIN WorkflowTable)
       => /\ returned'.threw
          /\ runStatus' = runStatus
          /\ workflowQueue' = workflowQueue
          /\ steps' = steps]_vars

\* C24 witness: executeWorkflow has thrown for an unknown workflow id, and
\* there is no run record and no queued job
C24_Witness ==
  /\ returned.op = "executeWorkflow"
  /\ returned.arg \notin DOMAIN WorkflowTable
  /\ returned.threw
  /\ runStatus = Null
  /\ workflowQueue = {}

\* C26: a task created by an activation that resumeWorkflow started is for a
\* step at or after the context's currentStepIndex and not for a step already
\* in completedSteps
C26_ResumeFromCurrentStep ==
  [][\A t \in DOMAIN tasks' \ DOMAIN tasks :
       t > Len(steps) =>
         /\ TaskIndex(t) >= context.currentStepIndex
         /\ steps[TaskIndex(t)].id \notin context.completedSteps]_vars

RecordsOf(id) ==
  (IF <<id, "success">> \in DOMAIN stepRuns THEN stepRuns[<<id, "success">>] ELSE 0)
  + (IF <<id, "failed">> \in DOMAIN stepRuns THEN stepRuns[<<id, "failed">>] ELSE 0)

\* C28: a step (whose id no other step shares) has at most one outcome record
C28_OneOutcomePerStep ==
  \A j \in 1..Len(steps) :
    (\A k \in 1..Len(steps) : k # j => steps[k].id # steps[j].id)
      => RecordsOf(steps[j].id) <= 1

\* C29: the previous_step_results of every step task has exactly the step's
\* declared dependencies as keys, each mapped to the result of a completed
\* task of that dependency; every completed step id has a stored result
C29_DependencyResults ==
  /\ \A t \in DOMAIN tasks :
       LET previous == tasks[t].payload.previous_step_results
       IN /\ DOMAIN previous = steps[TaskIndex(t)].dependencies
          /\ \A dep \in DOMAIN previous :
               \E u \in DOMAIN tasks :
                 /\ steps[TaskIndex(u)].id = dep
                 /\ tasks[u].status = "completed"
                 /\ tasks[u].result = previous[dep]
  /\ context.completedSteps \subseteq DOMAIN context.stepResults

C29_Witness ==
  \E t \in DOMAIN tasks :
    /\ steps[TaskIndex(t)].dependencies # {}
    /\ DOMAIN tasks[t].payload.previous_step_results = steps[TaskIndex(t)].dependencies
    /\ \E dep \in steps[TaskIndex(t)].dependencies : dep \in context.completedSteps

C31_OnlyFinalOutcome ==
  \A job \in retryQueue : tasks[job.taskId].status \notin Terminal

\* C32: a requireApproval call on an existing task leaves it with
\* approval_required true and status 'pending', adds one 'approval-required'
\* event with the task id and the requester, and adds no job
C32_RequireApproval ==
  [][(returned'.op = "requireApproval" /\ returned' # returned)
       => /\ tasks'[returned'.arg].approval_required
          /\ tasks'[returned'.arg].status = "pending"
          /\ \E u \in Users :
               approvalEvents' = Append(approvalEvents,
                                        [taskId |-> returned'.arg, userId |-> u])
          /\ agentQueue' = agentQueue]_vars

C34_JobEventsOrdered ==
  \A i \in DOMAIN eventStream :
    eventStream[i].event_type \in {"job_completed", "job_failed"}
      => \E k \in 1..(i - 1) :
           eventStream[k] = [event_type |-> "job_created", job_id |-> eventStream[i].job_id]

\* C35: createTask adds exactly one job per task, with the task's priority
\* and a delay of priority x 1000 ms (0 for priority 0); of two tasks, the one
\* with the lower priority value never has the longer delay
C35_PriorityDelay ==
  /\ \A t \in DOMAIN tasks :
       /\ t \in DOMAIN agentQueue
       /\ agentQueue[t] = 1
       /\ t \in DOMAIN jobOptions
       /\ Len(jobOptions[t]) = 1
       /\ jobOptions[t][1].priority = tasks[t].priority
       /\ jobOptions[t][1].delay =
            IF tasks[t].priority = 0 THEN 0 ELSE tasks[t].priority * 1000
  /\ \A t \in DOMAIN tasks, u \in DOMAIN tasks :
       tasks[t].priority < tasks[u].priority
         => jobOptions[t][1].delay <= jobOptions[u][1].delay

C35_Witness ==
  /\ Cardinality(DOMAIN tasks) = 2
  /\ tasks[1].priority = 2
  /\ tasks[2].priority = 0
  /\ jobOptions[1][1].delay = 2000
  /\ jobOptions[2][1].delay = 0

\* C37: an 'execute-workflow' job in the workflow queue refers to a run
\* record that exists with status 'running'
C37_JobHasRunRecord ==
  Run \in workflowQueue => runStatus = "running"

\* C36: every job waiting in the agent queue names a task that is in the
\* store, and a createTask call that throws because the insert failed leaves
\* the store and the queue as they were
C36_PersistBeforeEnqueue ==
  /\ [](\A t \in DOMAIN agentQueue : agentQueue[t] > 0 => Exists(t))
  /\ [][(returned' # returned /\ returned'.op = "createTask" /\ returned'.threw)
          => UNCHANGED <<tasks, agentQueue, jobOptions>>]_vars

C36_Witness ==
  /\ returned.op = "createTask"
  /\ returned.threw
  /\ returned.error = "insert failed"
  /\ tasks = <<>>
  /\ agentQueue = <<>>

\* C38: pauseWorkflow, resumeWorkflow and cancelWorkflow for a run that is
\* not live throw 'Workflow execution <id> not found' and change nothing; no
\* pause, cancel or resume takes effect while the run is not live
C38_NotLiveRejected ==
  [][/\ (returned' # returned
          /\ returned'.op \in {"pauseWorkflow", "resumeWorkflow", "cancelWorkflow"})
          => /\ Run \notin activeExecutions
             /\ returned'.threw
             /\ returned'.error = "Workflow execution run1 not found"
             /\ UNCHANGED <<steps, activeExecutions, runStatus, runError, context, acts,
                            stepRuns, tasks, agentQueue>>
     /\ Run \notin activeExecutions
          => /\ runStatus' \in {"paused", "cancelled"} => runStatus' = runStatus
             /\ \A a \in Acts \ {0} : acts[a].pc = "idle" => acts'[a].pc = "idle"]_vars

C38_Witness ==
  /\ returned.op = "cancelWorkflow"
  /\ returned.threw
  /\ runStatus = "cancelled"
  /\ Run \notin activeExecutions
  /\ acts[0].pc = "wait"

\* C39: the run is in activeExecutions only while its executeWorkflow
\* invocation is under way and no cancelWorkflow has removed it; once the
\* invocation has returned or thrown the run is absent and getWorkflowStatus
\* returns null
C39_LiveMembership ==
  /\ Run \in activeExecutions => acts[0].pc \notin {"idle", "done", "rejected"}
  /\ acts[0].pc \in {"done", "rejected"}
       => Run \notin activeExecutions /\ Len(GetWorkflowStatus(Run)) = 0
  /\ runStatus = "cancelled" => Run \notin activeExecutions

C39_Witness ==
  /\ acts[0].pc = "rejected"
  /\ runStatus = "failed"
  /\ Run \notin activeExecutions
  /\ Len(GetWorkflowStatus(Run)) = 0

====
